---- MODULE Spec2Model ----
(***************************************************************************)
(* The keychain customizer page (src/app/customizer/page.tsx).             *)
(*                                                                         *)
(* Units.  Normalized canvas coordinates and scales are held in            *)
(* thousandths (0.5 is 500, the hit radius 0.14 is 140, the charm scale    *)
(* 0.28 is 280); zoom is held in hundredths (0.65 is 65, the step 0.1 is   *)
(* 10).  Pointer positions are CSS pixels measured from the left/top edge  *)
(* of the canvas element's bounding rect.  Divisions that the page does in *)
(* floating point are done here with \div on these fixed-point values.     *)
(*                                                                         *)
(* Five specifications share the handlers:                                 *)
(*   Spec        the React state of the page (selection state, editing     *)
(*               sub-mode, drag session, confirm modal) under every        *)
(*               handler but the zoom buttons, at the default zoom;        *)
(*   SpecZoom    the same state under every handler but those of the       *)
(*               canvas pointer, over the whole zoom range;                *)
(*   SpecRender  the handlers that re-trigger the render effect, together  *)
(*               with the effect, its render passes and the image decodes; *)
(*   SpecPreview the same handlers and effect with the preview timers (the *)
(*               500 ms debounce and the 100 ms captures) firing;          *)
(*   SpecCoords  presses on the drawn center of a placed charm, over the   *)
(*               zoom range and the displayed sizes of the canvas element. *)
(* In Spec, SpecZoom and SpecCoords the canvas, the render passes, the     *)
(* timers and the image cache stay where construction put them.            *)
(***************************************************************************)
EXTENDS Integers, Sequences, FiniteSets, TLC

\* ------------------------------------------------------------------ bounds
\* Size of the catalog of bases (ASSETS.keychains) and of charms (ASSETS.animals).
NumBases == 2
NumCharms == 1
\* Palette clicks and drops are accepted while manualItems is shorter than this.
MaxItems == 2
\* The same for the palette clicks of SpecRender.
MaxRenderItems == 1
\* Render passes that may be waiting for their images at the same time.
MaxPasses == 2

\* ------------------------------------------------------- program constants
NULL == -1
CANVAS_SIZE == 800
ZOOM_DEFAULT == 65
ZOOM_STEP == 10
ZOOM_MIN == 40
ZOOM_MAX == 200
CHARM_SCALE == 280
HIT_RADIUS == 140
CENTER == 500

CHARM_POSITIONS ==
    [ C |-> [x |-> 500, y |-> 310, scale |-> 280],
      B |-> [x |-> 500, y |-> 580, scale |-> 280],
      A |-> [x |-> 500, y |-> 850, scale |-> 280] ]

Bases == 0 .. (NumBases - 1)
Charms == 0 .. (NumCharms - 1)
SlotNames == {"A", "B", "C"}
Modes == {"fixed", "manual"}

\* ------------------------------------------------------------------- state
VARIABLES
    state,          \* useState: mode, baseIndex, slots, manualItems, zoom
    isEditing,      \* useState: editor (TRUE) or clean preview (FALSE) sub-mode
    draggedItem,    \* useState: id of the item being moved, or NULL
    dragOffset,     \* useState: pointer minus item center at the press
    confirmModal,   \* useState: isOpen and the pending onConfirm closure
    rect,           \* canvas.getBoundingClientRect(): displayed width = height
    imageCache,     \* useRef Map: the paths whose decoded image is cached
    passes,         \* render() calls suspended at their Promise.all, oldest first
    canvas,         \* which state's composition the canvas bitmap shows
    layers,         \* what the last draw put on the canvas, layer by layer
    debounce,       \* the 500 ms capture timers the effect has pending
    captures,       \* the 100 ms capture timers palette clicks and drops started
    previewUrl,     \* useState: which canvas content the stored preview shows
    hist            \* history: the last event's kind and the state before the
                    \* request a confirm modal is (or was last) open for

uiVars == <<state, isEditing, draggedItem, dragOffset, confirmModal, rect>>
fxVars == <<imageCache, passes, canvas, layers, debounce>>
pvVars == <<captures, previewUrl>>
vars == <<state, isEditing, draggedItem, dragOffset, confirmModal, rect,
          imageCache, passes, canvas, layers, debounce, captures, previewUrl, hist>>

\* The displayed sizes of the canvas element the model draws rect from.
RectSizes == {CANVAS_SIZE}

InitialState ==
    [ mode |-> "fixed",
      baseIndex |-> 0,
      slots |-> [A |-> NULL, B |-> NULL, C |-> NULL],
      manualItems |-> <<>>,
      zoom |-> ZOOM_DEFAULT ]

InitUI ==
    /\ state = InitialState
    /\ isEditing = TRUE
    /\ draggedItem = NULL
    /\ dragOffset = [x |-> 0, y |-> 0]
    /\ confirmModal = [isOpen |-> FALSE, onConfirm |-> "none"]
    /\ rect \in RectSizes

\* History variable, read by no handler.  ev is "request" from the step that
\* opens the modal until the modal is answered, "confirm" / "decline" after the
\* step that answered it and "other" otherwise; snap and snapEditing hold
\* state and isEditing as they were before the request, from the request until
\* the step after the answer.
NoSnap == [ev |-> "other", snap |-> <<>>, snapEditing |-> TRUE]

InitHist == hist = NoSnap

Track(e) ==
    hist' =
        IF ~confirmModal.isOpen /\ confirmModal'.isOpen
           THEN [ev |-> "request", snap |-> state, snapEditing |-> isEditing]
        ELSE IF e \in {"confirm", "decline"}
           THEN [hist EXCEPT !.ev = e]
        ELSE IF confirmModal.isOpen
           THEN hist
        ELSE NoSnap

\* ----------------------------------------------------------------- helpers
Min(a, b) == IF a < b THEN a ELSE b
Max(a, b) == IF a > b THEN a ELSE b

ItemIds(items) == {items[i].id : i \in 1 .. Len(items)}

\* crypto.randomUUID(): an id no live reference holds.  The n-th fresh id of a
\* handler is the n-th smallest natural not among the ids the page still
\* refers to (manualItems and draggedItem).
LiveIds == ItemIds(state.manualItems) \cup {draggedItem}

\* Variant: the id is generated once per handler, not once per item.
randomUUID_once(n) ==
    LET free == (1 .. (Cardinality(LiveIds) + 1)) \ LiveIds
    IN CHOOSE i \in free : \A j \in free : i <= j

randomUUID(n) ==
    LET free == (1 .. (Cardinality(LiveIds) + n)) \ LiveIds
    IN CHOOSE i \in free : Cardinality({j \in free : j < i}) = n - 1

\* getCanvasCoords: p is the pointer position relative to the rect's left/top
\* edge in CSS px.  relX is kept in thousandths of a canvas pixel.
getCanvasCoords(p) ==
    LET relX == ((1000 * 100 * (2 * p.x - rect)) \div (2 * state.zoom))
                    + 1000 * (CANVAS_SIZE \div 2)
        relY == ((1000 * 100 * (2 * p.y - rect)) \div (2 * state.zoom))
                    + 1000 * (CANVAS_SIZE \div 2)
    IN [x |-> relX \div CANVAS_SIZE, y |-> relY \div CANVAS_SIZE]

\* ------------------------------------------------------------ confirm modal
ModalClosed == ~confirmModal.isOpen

showConfirm(onConfirm) ==
    confirmModal' = [isOpen |-> TRUE, onConfirm |-> onConfirm]

\* Variant: the update spreads prev and leaves isOpen as it was.
closeConfirmUpdate_open ==
    confirmModal' = confirmModal

closeConfirmUpdate ==
    confirmModal' = [confirmModal EXCEPT !.isOpen = FALSE]

\* Everything under the modal's full-page overlay is out of the pointer's reach
\* while the modal is open.
Reachable == ModalClosed

\* ------------------------------------------------------- selection handlers
\* Base button onClick.
setBase(idx) ==
    /\ Reachable
    /\ state' = [state EXCEPT !.baseIndex = idx]
    /\ UNCHANGED <<isEditing, draggedItem, dragOffset, confirmModal, rect>>

\* CharmList onSelect of a SlotControl (rendered in fixed mode only).
setSlot(slot, idx) ==
    /\ Reachable
    /\ state.mode = "fixed"
    /\ state' = [state EXCEPT !.slots[slot] = idx]
    /\ UNCHANGED <<isEditing, draggedItem, dragOffset, confirmModal, rect>>

\* SlotControl onClear ("Hapus", rendered when the slot is populated).
clearSlot(slot) ==
    /\ Reachable
    /\ state.mode = "fixed"
    /\ state.slots[slot] # NULL
    /\ state' = [state EXCEPT !.slots[slot] = NULL]
    /\ UNCHANGED <<isEditing, draggedItem, dragOffset, confirmModal, rect>>

\* Variant: the zoom-out update without its Math.max.
zoomOutValue_unclamped(z) == z - ZOOM_STEP

zoomInValue(z) == Min(z + ZOOM_STEP, ZOOM_MAX)
zoomOutValue(z) == Max(z - ZOOM_STEP, ZOOM_MIN)

zoomIn ==
    /\ Reachable
    /\ state' = [state EXCEPT !.zoom = zoomInValue(state.zoom)]
    /\ UNCHANGED <<isEditing, draggedItem, dragOffset, confirmModal, rect>>

zoomOut ==
    /\ Reachable
    /\ state' = [state EXCEPT !.zoom = zoomOutValue(state.zoom)]
    /\ UNCHANGED <<isEditing, draggedItem, dragOffset, confirmModal, rect>>

\* Editor / Preview buttons (rendered in manual mode only).
setIsEditing(b) ==
    /\ Reachable
    /\ state.mode = "manual"
    /\ isEditing' = b
    /\ UNCHANGED <<state, draggedItem, dragOffset, confirmModal, rect>>

\* ------------------------------------------------------------ mode switching
\* The items switchMode builds from the populated slots, in the order A, B, C.
\* Variant: the positions of slots A and C exchanged.
slotItem_flipped(slot, n) ==
    LET other == IF slot = "A" THEN "C" ELSE IF slot = "C" THEN "A" ELSE slot
    IN [ id |-> randomUUID(n),
         charmIndex |-> state.slots[slot],
         x |-> CHARM_POSITIONS[other].x,
         y |-> CHARM_POSITIONS[other].y,
         z |-> CHARM_POSITIONS[other].scale ]

slotItem(slot, n) ==
    [ id |-> randomUUID(n),
      charmIndex |-> state.slots[slot],
      x |-> CHARM_POSITIONS[slot].x,
      y |-> CHARM_POSITIONS[slot].y,
      z |-> CHARM_POSITIONS[slot].scale ]

newItems ==
    LET a == IF state.slots.A # NULL THEN <<slotItem("A", 1)>> ELSE <<>>
        b == IF state.slots.B # NULL THEN <<slotItem("B", Len(a) + 1)>> ELSE <<>>
        c == IF state.slots.C # NULL
                 THEN <<slotItem("C", Len(a) + Len(b) + 1)>> ELSE <<>>
    IN a \o b \o c

\* What the confirm closure built by switchMode('fixed') does to the state.
toFixedUpdate(s) == [s EXCEPT !.mode = "fixed"]

switchMode(newMode) ==
    /\ Reachable
    /\ newMode # state.mode
    /\ IF newMode = "manual" /\ state.mode = "fixed"
          THEN /\ state' = [state EXCEPT !.mode = "manual", !.manualItems = newItems]
               /\ isEditing' = TRUE
               /\ UNCHANGED confirmModal
          ELSE /\ newMode = "fixed"
               /\ showConfirm("toFixed")
               /\ UNCHANGED <<state, isEditing>>
    /\ UNCHANGED <<draggedItem, dragOffset, rect>>

\* ---------------------------------------------------------------- reset
\* Variant: a reset that spreads the previous state and so keeps its zoom.
resetState_keepZoom ==
    [ mode |-> "fixed",
      baseIndex |-> 0,
      slots |-> [A |-> NULL, B |-> NULL, C |-> NULL],
      manualItems |-> <<>>,
      zoom |-> state.zoom ]

\* The record the confirm closure built by handleReset passes to setState.
resetState ==
    [ mode |-> "fixed",
      baseIndex |-> 0,
      slots |-> [A |-> NULL, B |-> NULL, C |-> NULL],
      manualItems |-> <<>>,
      zoom |-> ZOOM_DEFAULT ]

handleReset ==
    /\ Reachable
    /\ showConfirm("reset")
    /\ UNCHANGED <<state, isEditing, draggedItem, dragOffset, rect>>

\* "Batal": closeConfirm.
closeConfirm ==
    /\ confirmModal.isOpen
    /\ closeConfirmUpdate
    /\ UNCHANGED <<state, isEditing, draggedItem, dragOffset, rect>>

\* "Ya, Lanjutkan": confirmModal.onConfirm(); closeConfirm().
confirmClick ==
    /\ confirmModal.isOpen
    /\ CASE confirmModal.onConfirm = "reset" ->
                /\ state' = resetState
                /\ isEditing' = TRUE
         [] confirmModal.onConfirm = "toFixed" ->
                /\ state' = toFixedUpdate(state)
                /\ UNCHANGED isEditing
         [] OTHER ->
                UNCHANGED <<state, isEditing>>
    /\ closeConfirmUpdate
    /\ UNCHANGED <<draggedItem, dragOffset, rect>>

\* ------------------------------------------------------------ pointer input
\* The canvas points the user aims the pointer at: just above the center
\* (exactly on the hit radius of the top slot, inside that of the middle slot
\* and of a charm added at the center); left of the center; left of the
\* canvas's own left edge (the canvas is drawn scaled about its center, so at
\* a zoom below 1 the element shows more than the canvas's own area).
AimPoints ==
    { [x |-> 500, y |-> 450], [x |-> 250, y |-> 450], [x |-> 0 - 250, y |-> 450] }

\* The position in the element at which getCanvasCoords puts canvas point c.
clientOf(c) ==
    [ x |-> (((c.x - 500) * state.zoom * CANVAS_SIZE) \div (100 * 1000)) + (rect \div 2),
      y |-> (((c.y - 500) * state.zoom * CANVAS_SIZE) \div (100 * 1000)) + (rect \div 2) ]

overElement(p) == p.x >= 0 /\ p.x <= rect /\ p.y >= 0 /\ p.y <= rect

\* The pointer positions an event is drawn from: over the canvas element.
PointerPositions == {p \in {clientOf(c) : c \in AimPoints} : overElement(p)}

\* dataTransfer.getData("charmIndex") parsed: a catalog index, or NULL for NaN.
DropPayloads == Charms \cup {NULL}

\* -------------------------------------------------- canvas interaction
isHit(coords, item) ==
    LET dx == coords.x - item.x
        dy == coords.y - item.y
    IN (dx * dx + dy * dy) < (HIT_RADIUS * HIT_RADIUS)

\* Variant: find without the reverse, the index of the first item hit.
clickedIndex_first(coords) ==
    LET hits == {i \in 1 .. Len(state.manualItems) : isHit(coords, state.manualItems[i])}
    IN IF hits = {} THEN 0 ELSE CHOOSE i \in hits : \A j \in hits : i <= j

\* [...manualItems].reverse().find(hit): the index of the last item hit, 0 if none.
clickedIndex(coords) ==
    LET hits == {i \in 1 .. Len(state.manualItems) : isHit(coords, state.manualItems[i])}
    IN IF hits = {} THEN 0 ELSE CHOOSE i \in hits : \A j \in hits : j <= i

handleCanvasMouseDown(p) ==
    /\ Reachable
    /\ IF state.mode # "manual" \/ ~isEditing
          THEN UNCHANGED <<draggedItem, dragOffset>>
          ELSE LET coords == getCanvasCoords(p)
                   k == clickedIndex(coords)
               IN IF k = 0
                     THEN UNCHANGED <<draggedItem, dragOffset>>
                     ELSE /\ draggedItem' = state.manualItems[k].id
                          /\ dragOffset' = [x |-> coords.x - state.manualItems[k].x,
                                            y |-> coords.y - state.manualItems[k].y]
    /\ UNCHANGED <<state, isEditing, confirmModal, rect>>

\* Variant: the map without its id test, every item is moved.
movedItems_all(items, id, coords, offset) ==
    [ i \in 1 .. Len(items) |->
        [items[i] EXCEPT !.x = coords.x - offset.x, !.y = coords.y - offset.y] ]

movedItems(items, id, coords, offset) ==
    [ i \in 1 .. Len(items) |->
        IF items[i].id = id
           THEN [items[i] EXCEPT !.x = coords.x - offset.x, !.y = coords.y - offset.y]
           ELSE items[i] ]

\* Variant: the early return without its test of the sub-mode.
moveIgnored_anySubmode == draggedItem = NULL \/ state.mode # "manual"

\* TRUE when handleCanvasMouseMove returns before setState.
moveIgnored == draggedItem = NULL \/ state.mode # "manual" \/ ~isEditing

handleCanvasMouseMove(p) ==
    /\ Reachable
    /\ IF moveIgnored
          THEN UNCHANGED state
          ELSE state' = [state EXCEPT !.manualItems =
                            movedItems(state.manualItems, draggedItem,
                                       getCanvasCoords(p), dragOffset)]
    /\ UNCHANGED <<isEditing, draggedItem, dragOffset, confirmModal, rect>>

\* mouseup, mouseleave, touchend.
handleCanvasMouseUp ==
    /\ draggedItem' = NULL
    /\ UNCHANGED <<state, isEditing, dragOffset, confirmModal, rect>>

droppedItem(charmIndex, coords) ==
    [ id |-> randomUUID(1), charmIndex |-> charmIndex,
      x |-> coords.x, y |-> coords.y, z |-> CHARM_SCALE ]

\* TRUE when handleDrop returns before setState.
dropIgnored(payload) == state.mode # "manual" \/ ~isEditing \/ payload = NULL

handleDrop(p, payload) ==
    /\ Reachable
    /\ Len(state.manualItems) < MaxItems
    /\ IF dropIgnored(payload)
          THEN UNCHANGED state
          ELSE state' = [state EXCEPT !.manualItems =
                            Append(@, droppedItem(payload, getCanvasCoords(p)))]
    /\ UNCHANGED <<isEditing, draggedItem, dragOffset, confirmModal, rect>>

\* Palette tile onClick (rendered in manual mode; inert outside the editor).
clickedItem(idx) ==
    [ id |-> randomUUID(1), charmIndex |-> idx, x |-> CENTER, y |-> CENTER,
      z |-> CHARM_SCALE ]

paletteClick(idx) ==
    /\ Reachable
    /\ state.mode = "manual"
    /\ Len(state.manualItems) < MaxItems
    /\ IF isEditing
          THEN state' = [state EXCEPT !.manualItems = Append(@, clickedItem(idx))]
          ELSE UNCHANGED state
    /\ UNCHANGED <<isEditing, draggedItem, dragOffset, confirmModal, rect>>

\* "Hapus Semua Charm" (rendered in manual mode while manualItems is not
\* empty, inside the palette block that ignores the pointer outside the editor).
clearAll ==
    /\ Reachable
    /\ state.mode = "manual"
    /\ isEditing
    /\ Len(state.manualItems) > 0
    /\ state' = [state EXCEPT !.manualItems = <<>>]
    /\ UNCHANGED <<isEditing, draggedItem, dragOffset, confirmModal, rect>>

\* ------------------------------------------------------------ render effect
\* The canvas bitmap is identified by the state it was composed from:
\* "blank" before the first draw, "current" when it shows the state of the most
\* recent run of the effect (the React state as it is now), "stale" when it
\* shows an earlier one.  A pass is "latest" when no run of the effect has
\* started after it.
basePath(s) == <<"keychains", s.baseIndex>>
charmPath(idx) == <<"animals", idx>>

\* The paths render() resolves, in the order of its Promise.all: the base, then
\* charmRequests (fixed: slots A, B, C when populated; manual: manualItems).
charmRequests(s) ==
    IF s.mode = "fixed"
       THEN (IF s.slots.A # NULL THEN <<charmPath(s.slots.A)>> ELSE <<>>)
            \o (IF s.slots.B # NULL THEN <<charmPath(s.slots.B)>> ELSE <<>>)
            \o (IF s.slots.C # NULL THEN <<charmPath(s.slots.C)>> ELSE <<>>)
       ELSE [i \in 1 .. Len(s.manualItems) |-> charmPath(s.manualItems[i].charmIndex)]

requestPaths(s) == <<basePath(s)>> \o charmRequests(s)

\* loadImage up to its first await: a cache hit returns the image, a miss
\* starts a decode of a new Image.
loadImageStart(src) == IF src \in imageCache THEN "img" ELSE "decoding"

resolved(status) == status \in {"img", "null"}
allResolved(loads) == \A i \in 1 .. Len(loads) : resolved(loads[i])

aged(c) == IF c = "current" THEN "stale" ELSE c

\* What a pass does after its Promise.all: nothing if !isMounted, else clear
\* and draw the state it was started with.
drawn(pass, c) ==
    IF ~pass.isMounted THEN c
    ELSE IF pass.latest THEN "current" ELSE "stale"

\* Variant: a draw that stops after the error text when the base is null.
layersOf_stop(loads) ==
    [ base |-> IF loads[1] = "img" THEN "image" ELSE "error",
      charms |-> [i \in 1 .. (Len(loads) - 1) |-> loads[1] = "img" /\ loads[i + 1] = "img"] ]

\* The layers a draw puts on the cleared canvas: the base image or, when it is
\* null, the error text with the path; then every charm whose image is not null.
layersOf(loads) ==
    [ base |-> IF loads[1] = "img" THEN "image" ELSE "error",
      charms |-> [i \in 1 .. (Len(loads) - 1) |-> loads[i + 1] = "img"] ]

drawnLayers(pass, l) == IF ~pass.isMounted THEN l ELSE layersOf(pass.loads)

\* The cleanup the previous run of the effect returned: clearTimeout when it
\* ran with no drag in progress, isMounted = false otherwise.  draggedItem is a
\* dependency of the effect, so its value at the previous run is its value now.
cleanedUp(ps) ==
    [ k \in 1 .. Len(ps) |->
        [ps[k] EXCEPT !.isMounted = IF ps[k].latest /\ draggedItem # NULL
                                       THEN FALSE ELSE @,
                      !.latest = FALSE] ]

\* Variant: a cleanup that never calls clearTimeout.
cleanedTimers_leak(d) ==
    [own |-> FALSE, old |-> d.old + (IF d.own THEN 1 ELSE 0)]

\* The same cleanup on the 500 ms timers: own is the timer of the latest run
\* of the effect, old counts pending timers of earlier runs.
cleanedTimers(d) ==
    IF draggedItem = NULL
       THEN [d EXCEPT !.own = FALSE]
       ELSE [own |-> FALSE, old |-> d.old + (IF d.own THEN 1 ELSE 0)]

\* One run of the effect for the new state s: cleanup of the previous run,
\* then render() up to its await, then the 500 ms timer when the new
\* draggedItem is null.  When every image is cached the awaits resolve within
\* the same task and the pass draws before any other event.
RunEffect(s) ==
    LET loads == [i \in 1 .. Len(requestPaths(s)) |-> loadImageStart(requestPaths(s)[i])]
        pass == [isMounted |-> TRUE, latest |-> TRUE, paths |-> requestPaths(s),
                 loads |-> loads]
    IN /\ IF allResolved(loads)
             THEN /\ passes' = cleanedUp(passes)
                  /\ canvas' = drawn(pass, aged(canvas))
                  /\ layers' = drawnLayers(pass, layers)
             ELSE /\ Len(passes) < MaxPasses
                  /\ passes' = Append(cleanedUp(passes), pass)
                  /\ canvas' = aged(canvas)
                  /\ UNCHANGED layers
       /\ debounce' = [cleanedTimers(debounce) EXCEPT !.own = (draggedItem' = NULL)]
       /\ UNCHANGED imageCache

NoEffect == UNCHANGED <<fxVars, pvVars>>

\* updatePreview: canvas.toDataURL into previewUrl.
updatePreview == previewUrl' = canvas

\* A run of the effect in a handler that starts n 100 ms capture timers.  The
\* preview shows what it showed, which is no longer from the latest run.
Rerender(n) ==
    /\ RunEffect(state')
    /\ captures' = captures + n
    /\ previewUrl' = aged(previewUrl)

\* handleCanvasMouseUp's updatePreview(), then the run of the effect.
RerenderAfterCapture ==
    /\ RunEffect(state')
    /\ previewUrl' = aged(canvas)
    /\ UNCHANGED captures

RemoveAt(seq, k) == [i \in 1 .. (Len(seq) - 1) |-> IF i < k THEN seq[i] ELSE seq[i + 1]]

\* Variant: the pass draws what it has each time one of its loads returns.
settle_eager(k, i, status) ==
    LET pass == [passes[k] EXCEPT !.loads[i] = status]
    IN /\ passes' = IF allResolved(pass.loads)
                       THEN RemoveAt(passes, k)
                       ELSE [passes EXCEPT ![k] = pass]
       /\ canvas' = drawn(pass, canvas)
       /\ layers' = drawnLayers(pass, layers)

\* Load i of pass k gets its result; when it was the last one the pass wakes
\* from Promise.all and runs to its end.
settle(k, i, status) ==
    LET pass == [passes[k] EXCEPT !.loads[i] = status]
    IN IF allResolved(pass.loads)
          THEN /\ passes' = RemoveAt(passes, k)
               /\ canvas' = drawn(pass, canvas)
               /\ layers' = drawnLayers(pass, layers)
          ELSE /\ passes' = [passes EXCEPT ![k] = pass]
               /\ UNCHANGED <<canvas, layers>>

\* img.decode() fulfils: the image is cached and returned.
decodeResolved(k, i) ==
    /\ passes[k].loads[i] = "decoding"
    /\ imageCache' = imageCache \cup {passes[k].paths[i]}
    /\ settle(k, i, "img")
    /\ UNCHANGED <<uiVars, debounce, pvVars>>

\* img.decode() rejects: loadImage sets onload and onerror and waits.  The
\* image's load or error event is either still to come ("fallback") or was
\* dispatched before the handlers were set ("missed").
decodeRejected(k, i) ==
    /\ passes[k].loads[i] = "decoding"
    /\ \E st \in {"fallback", "missed"} :
          passes' = [passes EXCEPT ![k].loads[i] = st]
    /\ UNCHANGED <<imageCache, canvas, layers>>
    /\ UNCHANGED <<uiVars, debounce, pvVars>>

\* img.onload of the fallback: the image is cached and returned.
fallbackLoaded(k, i) ==
    /\ passes[k].loads[i] = "fallback"
    /\ imageCache' = imageCache \cup {passes[k].paths[i]}
    /\ settle(k, i, "img")
    /\ UNCHANGED <<uiVars, debounce, pvVars>>

\* img.onerror of the fallback: loadImage returns null.
fallbackFailed(k, i) ==
    /\ passes[k].loads[i] = "fallback"
    /\ settle(k, i, "null")
    /\ UNCHANGED imageCache
    /\ UNCHANGED <<uiVars, debounce, pvVars>>

\* A 500 ms timer fires: updatePreview.
debounceFires ==
    /\ \/ debounce.own /\ debounce' = [debounce EXCEPT !.own = FALSE]
       \/ debounce.old > 0 /\ debounce' = [debounce EXCEPT !.old = @ - 1]
    /\ updatePreview
    /\ UNCHANGED <<uiVars, imageCache, passes, canvas, layers, captures>>

\* A 100 ms timer fires: updatePreview.
captureFires ==
    /\ captures > 0
    /\ captures' = captures - 1
    /\ updatePreview
    /\ UNCHANGED <<uiVars, fxVars>>

\* After construction and mount: the effect has run once for the initial state.
InitFx ==
    /\ imageCache = {}
    /\ passes = << [isMounted |-> TRUE, latest |-> TRUE,
                    paths |-> requestPaths(InitialState),
                    loads |-> <<"decoding">>] >>
    /\ canvas = "blank"
    /\ layers = [base |-> "none", charms |-> <<>>]
    /\ debounce = [own |-> TRUE, old |-> 0]
    /\ captures = 0
    /\ previewUrl = "none"

\* ------------------------------------------------------------ specification
Init == InitUI /\ InitFx /\ InitHist

\* The React state under every handler but the zoom buttons (the zoom stays
\* at its default, which getCanvasCoords reads).
Next ==
    \/ \E idx \in Bases : setBase(idx) /\ NoEffect /\ Track("other")
    \/ \E slot \in SlotNames, idx \in Charms : setSlot(slot, idx) /\ NoEffect /\ Track("other")
    \/ \E slot \in SlotNames : clearSlot(slot) /\ NoEffect /\ Track("other")
    \/ \E b \in BOOLEAN : setIsEditing(b) /\ NoEffect /\ Track("other")
    \/ \E m \in Modes : switchMode(m) /\ NoEffect /\ Track("other")
    \/ handleReset /\ NoEffect /\ Track("other")
    \/ closeConfirm /\ NoEffect /\ Track("decline")
    \/ confirmClick /\ NoEffect /\ Track("confirm")
    \/ \E p \in PointerPositions : handleCanvasMouseDown(p) /\ NoEffect /\ Track("other")
    \/ \E p \in PointerPositions : handleCanvasMouseMove(p) /\ NoEffect /\ Track("other")
    \/ handleCanvasMouseUp /\ NoEffect /\ Track("other")
    \/ \E p \in PointerPositions, c \in DropPayloads : handleDrop(p, c) /\ NoEffect /\ Track("other")
    \/ \E idx \in Charms : paletteClick(idx) /\ NoEffect /\ Track("other")
    \/ clearAll /\ NoEffect /\ Track("other")

Spec == Init /\ [][Next]_vars

\* The React state under every handler but those of the canvas pointer (press,
\* move, release, drop), which are the only readers of the zoom among the
\* handlers.
NextZoom ==
    \/ zoomIn /\ NoEffect /\ Track("other")
    \/ zoomOut /\ NoEffect /\ Track("other")
    \/ \E idx \in Bases : setBase(idx) /\ NoEffect /\ Track("other")
    \/ \E slot \in SlotNames, idx \in Charms : setSlot(slot, idx) /\ NoEffect /\ Track("other")
    \/ \E slot \in SlotNames : clearSlot(slot) /\ NoEffect /\ Track("other")
    \/ \E b \in BOOLEAN : setIsEditing(b) /\ NoEffect /\ Track("other")
    \/ \E m \in Modes : switchMode(m) /\ NoEffect /\ Track("other")
    \/ handleReset /\ NoEffect /\ Track("other")
    \/ closeConfirm /\ NoEffect /\ Track("decline")
    \/ confirmClick /\ NoEffect /\ Track("confirm")
    \/ \E idx \in Charms : paletteClick(idx) /\ NoEffect /\ Track("other")
    \/ clearAll /\ NoEffect /\ Track("other")

SpecZoom == Init /\ [][NextZoom]_vars

\* The handlers that re-trigger the effect, the effect and the image events.
\* The capture timers are started and cancelled but none of them fires.
NextRender ==
    \/ \E idx \in Bases : setBase(idx) /\ Rerender(0) /\ Track("other")
    \/ switchMode("manual") /\ Rerender(0) /\ Track("other")
    \/ \E b \in BOOLEAN :
          setIsEditing(b) /\ (IF b # isEditing THEN Rerender(0) ELSE NoEffect)
            /\ Track("other")
    \/ \E idx \in Charms :
          /\ Len(state.manualItems) < MaxRenderItems
          /\ paletteClick(idx)
          /\ (IF isEditing THEN Rerender(1) ELSE NoEffect)
          /\ Track("other")
    \/ \E p \in PointerPositions :
          handleCanvasMouseDown(p)
            /\ (IF draggedItem' # draggedItem THEN Rerender(0) ELSE NoEffect)
            /\ Track("other")
    \/ \E p \in PointerPositions :
          handleCanvasMouseMove(p)
            /\ (IF moveIgnored THEN NoEffect ELSE Rerender(0))
            /\ Track("other")
    \/ handleCanvasMouseUp
            /\ (IF draggedItem # NULL THEN RerenderAfterCapture ELSE NoEffect)
            /\ Track("other")
    \/ \E k \in 1 .. Len(passes) : \E i \in 1 .. Len(passes[k].loads) :
          decodeResolved(k, i) /\ Track("other")
    \/ \E k \in 1 .. Len(passes) : \E i \in 1 .. Len(passes[k].loads) :
          decodeRejected(k, i) /\ Track("other")
    \/ \E k \in 1 .. Len(passes) : \E i \in 1 .. Len(passes[k].loads) :
          fallbackLoaded(k, i) /\ Track("other")
    \/ \E k \in 1 .. Len(passes) : \E i \in 1 .. Len(passes[k].loads) :
          fallbackFailed(k, i) /\ Track("other")

SpecRender == Init /\ [][NextRender]_vars

\* The handlers that re-trigger the effect, the effect and the capture timers,
\* with images whose decode succeeds.
NextPreview ==
    \/ \E idx \in Bases : setBase(idx) /\ Rerender(0) /\ Track("other")
    \/ switchMode("manual") /\ Rerender(0) /\ Track("other")
    \/ \E b \in BOOLEAN :
          setIsEditing(b) /\ (IF b # isEditing THEN Rerender(0) ELSE NoEffect)
            /\ Track("other")
    \/ \E idx \in Charms :
          /\ Len(state.manualItems) < MaxRenderItems
          /\ paletteClick(idx)
          /\ (IF isEditing THEN Rerender(1) ELSE NoEffect)
          /\ Track("other")
    \/ \E p \in PointerPositions :
          handleCanvasMouseDown(p)
            /\ (IF draggedItem' # draggedItem THEN Rerender(0) ELSE NoEffect)
            /\ Track("other")
    \/ \E p \in PointerPositions :
          handleCanvasMouseMove(p)
            /\ (IF moveIgnored THEN NoEffect ELSE Rerender(0))
            /\ Track("other")
    \/ handleCanvasMouseUp
            /\ (IF draggedItem # NULL THEN RerenderAfterCapture ELSE NoEffect)
            /\ Track("other")
    \/ \E k \in 1 .. Len(passes) : \E i \in 1 .. Len(passes[k].loads) :
          decodeResolved(k, i) /\ Track("other")
    \/ debounceFires /\ Track("other")
    \/ captureFires /\ Track("other")

SpecPreview == Init /\ [][NextPreview]_vars

\* ------------------------------------------------------- drawing transform
\* Where the center of a charm at normalized point c appears, in CSS px from
\* the left/top edge of the canvas element: render() draws it at canvas pixel
\* CANVAS_SIZE * c under translate(center), scale(zoom), translate(-center),
\* and the element shows the CANVAS_SIZE bitmap over rect px.
drawnAt(c) ==
    [ x |-> (((((c.x - 500) * CANVAS_SIZE * state.zoom) \div (1000 * 100))
                + (CANVAS_SIZE \div 2)) * rect) \div CANVAS_SIZE,
      y |-> (((((c.y - 500) * CANVAS_SIZE * state.zoom) \div (1000 * 100))
                + (CANVAS_SIZE \div 2)) * rect) \div CANVAS_SIZE ]

\* The displayed sizes of the canvas element and the item positions the
\* round trip is tried on.
DisplayedSizes == {400, CANVAS_SIZE}
CoordPoints == {[x |-> cx, y |-> cy] : cx \in {250, 500, 750}, cy \in {250, 500, 750}}

\* Manual mode, editing, one charm at a point of CoordPoints, the element
\* shown at one of DisplayedSizes.
InitCoords ==
    /\ \E c \in CoordPoints :
          state = [InitialState EXCEPT
                     !.mode = "manual",
                     !.manualItems = << [id |-> 1, charmIndex |-> 0,
                                         x |-> c.x, y |-> c.y, z |-> CHARM_SCALE] >>]
    /\ isEditing = TRUE
    /\ draggedItem = NULL
    /\ dragOffset = [x |-> 0, y |-> 0]
    /\ confirmModal = [isOpen |-> FALSE, onConfirm |-> "none"]
    /\ rect \in DisplayedSizes
    /\ InitFx
    /\ InitHist

\* A press on the canvas where item i is drawn.
pressOnDrawn(i) ==
    /\ overElement(drawnAt(state.manualItems[i]))
    /\ handleCanvasMouseDown(drawnAt(state.manualItems[i]))

\* The zoom buttons, presses on the canvas where the charm is drawn, releases.
NextCoords ==
    \/ zoomIn /\ NoEffect /\ Track("other")
    \/ zoomOut /\ NoEffect /\ Track("other")
    \/ \E i \in 1 .. Len(state.manualItems) : pressOnDrawn(i) /\ NoEffect /\ Track("other")
    \/ handleCanvasMouseUp /\ NoEffect /\ Track("other")

SpecCoords == InitCoords /\ [][NextCoords]_vars

\* ------------------------------------------------------------------ claims
items == state.manualItems

\* C1: a render pass overtaken by a later run of the effect never draws, so
\* once every pass has finished the canvas shows the composition of the most
\* recent state.
C1_FinishedCanvasIsCurrent ==
    passes = <<>> => canvas = "current"

\* C2: while a switch to fixed mode awaits its confirmation the state is the
\* one before the request (manual mode, manualItems untouched); once it is
\* confirmed the mode is fixed and manualItems is empty.
C2_ConfirmedSwitchDiscards ==
    /\ (hist.ev = "request" /\ confirmModal.onConfirm = "toFixed")
          => (state = hist.snap /\ state.mode = "manual")
    /\ (hist.ev = "confirm" /\ confirmModal.onConfirm = "toFixed")
          => (state.mode = "fixed" /\ state.manualItems = <<>>)

\* C3: after the user declines a reset or a switch to fixed mode, mode,
\* baseIndex, slots, manualItems and zoom are what they were before the
\* request and the modal is closed; a destructive action is applied only by
\* confirming a request that is still open, never after its decline.
C3_DeclineLeavesState ==
    /\ [](hist.ev = "decline" =>
            /\ state.mode = hist.snap.mode
            /\ state.baseIndex = hist.snap.baseIndex
            /\ state.slots = hist.snap.slots
            /\ state.manualItems = hist.snap.manualItems
            /\ state.zoom = hist.snap.zoom
            /\ ~confirmModal.isOpen)
    /\ [][hist'.ev = "confirm" => (hist.ev = "request" /\ confirmModal.isOpen)]_vars
    /\ [][(confirmModal.isOpen /\ hist'.ev # "confirm") => state' = state]_vars

C3_Witness ==
    /\ hist.ev = "decline"
    /\ confirmModal.onConfirm = "reset"
    /\ state.mode = "manual"
    /\ Len(items) = 2
    /\ state.baseIndex # 0

\* C4: the zoom is always within [0.4, 2.0]; a zoom step that would leave the
\* range ends on the bound it would cross.
C4_ZoomClamped ==
    /\ [](state.zoom >= ZOOM_MIN /\ state.zoom <= ZOOM_MAX)
    /\ [][zoomIn /\ state.zoom + ZOOM_STEP > ZOOM_MAX => state'.zoom = ZOOM_MAX]_vars
    /\ [][zoomOut /\ state.zoom - ZOOM_STEP < ZOOM_MIN => state'.zoom = ZOOM_MIN]_vars

C4_Witness ==
    /\ state.zoom = ZOOM_MIN
    /\ state.mode = "manual"
    /\ items # <<>>

\* C5: right after a confirmed reset the state is mode fixed, base 0, three
\* empty slots, no manual items and zoom 0.65, and the sub-mode is editing.
C5_ConfirmedReset ==
    (hist.ev = "confirm" /\ confirmModal.onConfirm = "reset") =>
        /\ state.mode = "fixed"
        /\ state.baseIndex = 0
        /\ \A slot \in SlotNames : state.slots[slot] = NULL
        /\ Len(state.manualItems) = 0
        /\ state.zoom = 65
        /\ isEditing

C5_Witness ==
    /\ hist.ev = "confirm"
    /\ confirmModal.onConfirm = "reset"
    /\ hist.snap.mode = "manual"
    /\ hist.snap.baseIndex # 0
    /\ hist.snap.slots.B # NULL
    /\ hist.snap.manualItems # <<>>
    /\ hist.snap.zoom > ZOOM_DEFAULT
    /\ ~hist.snapEditing

\* The populated slots in the order bottom, middle, top.
populated == SelectSeq(<<"A", "B", "C">>, LAMBDA slot : state.slots[slot] # NULL)

\* C6: a switch from fixed to manual mode sets manualItems to one item per
\* populated slot, in the order bottom, middle, top, each with the slot's
\* charm index, the slot's fixed position, scale 0.28 and an id that is new
\* and its own; the sub-mode becomes editing; baseIndex, slots and zoom stay.
C6_FixedToManual ==
    [][ (state.mode = "fixed" /\ state'.mode = "manual") =>
          /\ Len(state'.manualItems) = Len(populated)
          /\ \A i \in 1 .. Len(populated) :
                LET it == state'.manualItems[i]
                    pos == CHARM_POSITIONS[populated[i]]
                IN /\ it.charmIndex = state.slots[populated[i]]
                   /\ it.x = pos.x /\ it.y = pos.y
                   /\ it.z = 280
                   /\ it.id \notin ItemIds(items) \cup {draggedItem}
                   /\ \A j \in 1 .. Len(populated) :
                         j # i => state'.manualItems[j].id # it.id
          /\ isEditing'
          /\ state'.baseIndex = state.baseIndex
          /\ state'.slots = state.slots
          /\ state'.zoom = state.zoom ]_vars

\* Manual mode entered with all three slots populated, the id a drag of an
\* earlier manual session left in draggedItem being none of the new ones.
C6_Witness ==
    /\ state.mode = "manual"
    /\ Len(items) = 3
    /\ \A i \in 1 .. 3 : items[i].x = 500 /\ items[i].y = <<850, 580, 310>>[i]
    /\ draggedItem # NULL
    /\ draggedItem \notin ItemIds(items)

\* C7: the ids of the items of manualItems are pairwise distinct.
C7_UniqueIds ==
    \A i, j \in 1 .. Len(items) : i # j => items[i].id # items[j].id

C7_Witness ==
    /\ Len(items) = 3
    /\ \E i \in 1 .. 3 : items[i].x # 500
    /\ draggedItem \in ItemIds(items)

\* C8: every item of manualItems has x and y within [0, 1].
C8_ItemsInUnitSquare ==
    \A i \in 1 .. Len(items) :
        /\ items[i].x >= 0 /\ items[i].x <= 1000
        /\ items[i].y >= 0 /\ items[i].y <= 1000

\* The squared distance from canvas point c to the center of item i, and the
\* items whose center is less than 0.14 away from c.
dist2(c, i) ==
    ((c.x - items[i].x) * (c.x - items[i].x)) + ((c.y - items[i].y) * (c.y - items[i].y))

near(c) == { i \in 1 .. Len(items) : dist2(c, i) < 140 * 140 }

topmost(c) == CHOOSE i \in near(c) : \A j \in near(c) : j <= i

\* C9: a press in manual mode with editing active starts the drag on the
\* last item of manualItems among those whose center is less than 0.14 away
\* from the pointer; with no such item draggedItem keeps its value; the
\* selection state is unchanged either way.
C9_PressPicksTopmost ==
    [][ \A p \in PointerPositions :
          (handleCanvasMouseDown(p) /\ state.mode = "manual" /\ isEditing) =>
              /\ state' = state
              /\ IF near(getCanvasCoords(p)) = {}
                    THEN draggedItem' = draggedItem
                    ELSE draggedItem' = items[topmost(getCanvasCoords(p))].id ]_vars

\* A drag that started where two items were in reach, on the later one though
\* the earlier one was nearer.
C9_Witness ==
    /\ state.mode = "manual" /\ isEditing
    /\ \E p \in PointerPositions :
          LET c == getCanvasCoords(p)
          IN /\ Cardinality(near(c)) = 2
             /\ draggedItem = items[topmost(c)].id
             /\ dragOffset = [x |-> c.x - items[topmost(c)].x,
                              y |-> c.y - items[topmost(c)].y]
             /\ \E i \in near(c) : i < topmost(c) /\ dist2(c, i) < dist2(c, topmost(c))

\* C10: a drag move changes nothing but the x and y of the item whose id is
\* draggedItem: length, order, ids, charm indexes and scales of manualItems,
\* every other item, mode, baseIndex, slots and zoom stay; with no item of
\* that id nothing changes.
C10_MoveFrame ==
    [][ \A p \in PointerPositions :
          handleCanvasMouseMove(p) =>
              /\ Len(state'.manualItems) = Len(items)
              /\ \A i \in 1 .. Len(items) :
                    /\ state'.manualItems[i].id = items[i].id
                    /\ state'.manualItems[i].charmIndex = items[i].charmIndex
                    /\ state'.manualItems[i].z = items[i].z
                    /\ items[i].id # draggedItem => state'.manualItems[i] = items[i]
              /\ state'.mode = state.mode
              /\ state'.baseIndex = state.baseIndex
              /\ state'.slots = state.slots
              /\ state'.zoom = state.zoom
              /\ draggedItem \notin ItemIds(items) => state' = state ]_vars

\* The item of the middle slot, dragged to the left of an item that stayed.
C10_Witness ==
    /\ state.mode = "manual" /\ isEditing
    /\ \E i, j \in 1 .. Len(items) :
          /\ items[i].id = draggedItem
          /\ items[i].x = 250 /\ items[i].y = 580
          /\ j # i
          /\ items[j].x = 500

\* The loads of the suspended passes, as <<pass, load>> index pairs.
Loads == {<<k, i>> \in (1 .. Len(passes)) \X (1 .. 4) : i <= Len(passes[k].loads)}

decoding(l) == passes[l[1]].loads[l[2]] \in {"decoding", "fallback", "missed"}

\* C11: each distinct image path is decoded at most once: no two loadImage
\* calls, of one render batch or of overlapping passes, are decoding the same
\* path, and no path already in the cache is being decoded again.
C11_DecodedOnce ==
    /\ \A l1, l2 \in Loads :
          (decoding(l1) /\ decoding(l2)
             /\ passes[l1[1]].paths[l1[2]] = passes[l2[1]].paths[l2[2]]) => l1 = l2
    /\ \A l \in Loads : decoding(l) => passes[l[1]].paths[l[2]] \notin imageCache

\* C12: no capture timer fires while a drag is in progress (draggedItem is
\* not null), whether the effect started it or a palette click or a drop did;
\* the release that ends a drag stores a capture of the canvas as it is then.
C12_NoCaptureDuringDrag ==
    /\ [][(debounceFires \/ captureFires) => draggedItem = NULL]_vars
    /\ [][(handleCanvasMouseUp /\ draggedItem # NULL)
             => previewUrl' = (IF canvas = "current" THEN "stale" ELSE canvas)]_vars

\* C13: in fixed mode, and in manual mode with the clean preview (isEditing
\* false), a pointer press, a pointer move and a drop leave draggedItem and
\* manualItems as they are.
C13_InertOutsideEditor ==
    [][ (state.mode = "fixed" \/ ~isEditing) =>
          \A p \in PointerPositions :
             (\/ handleCanvasMouseDown(p)
              \/ handleCanvasMouseMove(p)
              \/ \E payload \in DropPayloads : handleDrop(p, payload))
                => (draggedItem' = draggedItem /\ state'.manualItems = items) ]_vars

\* The clean preview entered with an item still held and room for a drop.
C13_Witness ==
    /\ state.mode = "manual"
    /\ ~isEditing
    /\ draggedItem \in ItemIds(items)
    /\ Len(items) < MaxItems
    /\ ~confirmModal.isOpen

\* An image event on load l, and whether every other load of l's pass has
\* returned.
imageEvent(l) ==
    \/ decodeResolved(l[1], l[2])
    \/ decodeRejected(l[1], l[2])
    \/ fallbackLoaded(l[1], l[2])
    \/ fallbackFailed(l[1], l[2])

othersResolved(l) ==
    \A j \in 1 .. Len(passes[l[1]].loads) :
        j # l[2] => passes[l[1]].loads[j] \in {"img", "null"}

\* C14: an image event that leaves a load of its pass unfinished changes
\* neither the canvas nor its layers, and the pass stays suspended; the event
\* that finishes the last load ends the pass in the same step, and the draw of
\* a pass puts the base layer and a layer entry for every charm at once.
C14_DrawAfterAllResolved ==
    [][ \A l \in Loads :
          imageEvent(l) =>
             IF othersResolved(l) /\ ~decodeRejected(l[1], l[2])
                THEN /\ Len(passes') = Len(passes) - 1
                     /\ passes[l[1]].isMounted =>
                           /\ layers'.base # "none"
                           /\ Len(layers'.charms) = Len(passes[l[1]].loads) - 1
                ELSE /\ canvas' = canvas
                     /\ layers' = layers
                     /\ Len(passes') = Len(passes) ]_vars

\* A pass that waited for the base and a charm has drawn both.
C14_Witness ==
    /\ passes = <<>>
    /\ canvas = "current"
    /\ layers.base = "image"
    /\ layers.charms = <<TRUE>>
    /\ imageCache = {basePath(state), charmPath(0)}

\* Nothing is pending: no suspended pass, no timer, no drag.
quiet ==
    /\ passes = <<>>
    /\ ~debounce.own /\ debounce.old = 0
    /\ captures = 0
    /\ draggedItem = NULL

\* C15: a 500 ms timer captures the canvas only when the pass of the latest
\* run of the effect has drawn, so once nothing is pending the stored preview
\* shows the canvas composed from the current state.
C15_CaptureAfterDraw ==
    /\ [][debounceFires => \A k \in 1 .. Len(passes) : ~passes[k].latest]_vars
    /\ [](quiet => previewUrl = "current")

\* The number of 500 ms timers pending.
pendingDebounce == (IF debounce.own THEN 1 ELSE 0) + debounce.old

\* C16: at most one 500 ms timer is pending, it is the one of the latest run
\* of the effect (the timer of the run before was cancelled), and none is
\* pending while a drag is in progress.
C16_OneDebounceTimer ==
    /\ pendingDebounce <= 1
    /\ debounce.old = 0
    /\ draggedItem # NULL => pendingDebounce = 0

\* A drag whose start cancelled the pending timer before any timer had fired.
C16_Witness ==
    /\ draggedItem # NULL
    /\ pendingDebounce = 0
    /\ previewUrl = "none"

\* C17: every loadImage call completes: as long as a load has not returned,
\* an image event that takes it further is still to come, so no render pass
\* stays in its Promise.all for ever.
C17_EveryLoadCompletes ==
    \A l \in Loads : decoding(l) => ENABLED imageEvent(l)

\* What the loads of l's pass have returned once the event on l has happened.
returned(l) ==
    [ passes[l[1]].loads EXCEPT
        ![l[2]] = IF fallbackFailed(l[1], l[2]) THEN "null" ELSE "img" ]

\* C18: the draw of a pass puts the error text in place of a base that failed
\* and the image of a base that resolved, and draws exactly the charms that
\* resolved, whatever the other images did; an image that failed is not put
\* into the cache.
C18_FailedLayers ==
    [][ \A l \in Loads :
          /\ fallbackFailed(l[1], l[2]) => imageCache' = imageCache
          /\ (imageEvent(l) /\ Len(passes') < Len(passes) /\ passes[l[1]].isMounted) =>
                /\ layers'.base = IF returned(l)[1] = "null" THEN "error" ELSE "image"
                /\ Len(layers'.charms) = Len(returned(l)) - 1
                /\ \A j \in 2 .. Len(returned(l)) :
                      layers'.charms[j - 1] = (returned(l)[j] # "null") ]_vars

\* The error text drawn with a charm on top of it.
C18_Witness ==
    /\ layers.base = "error"
    /\ layers.charms = <<TRUE>>
    /\ basePath(state) \notin imageCache

\* C19: getCanvasCoords maps the pointer position at which a canvas point
\* is drawn back to that point, at every zoom and displayed size: an item
\* pressed at the pointer position where its center is drawn is picked up
\* at its own position, with a zero drag offset.
C19_CoordsInvertDraw ==
    \A i \in 1 .. Len(items) :
       draggedItem = items[i].id =>
          /\ getCanvasCoords(drawnAt(items[i])) = [x |-> items[i].x, y |-> items[i].y]
          /\ dragOffset = [x |-> 0, y |-> 0]

\* C20: whenever a drag session is open (draggedItem is non-null), the mode
\* is manual, the editor sub-mode is active and draggedItem is the id of an
\* item of manualItems.
C20_DragTargetsLiveItem ==
    draggedItem # NULL =>
       /\ state.mode = "manual"
       /\ isEditing
       /\ draggedItem \in ItemIds(items)

\* C21: a step taken in manual mode changes slots only if it is the
\* confirmation of a reset, and a step taken in fixed mode changes
\* manualItems only if it is the switch to manual mode.
C21_ModeFrame ==
    [][ /\ (state.mode = "manual" /\ state'.slots # state.slots) =>
              (confirmModal.onConfirm = "reset" /\ hist'.ev = "confirm")
        /\ (state.mode = "fixed" /\ state'.manualItems # state.manualItems) =>
              state'.mode = "manual" ]_vars

====
